---------------------------- MODULE Spec2Model ----------------------------
(***************************************************************************)
(* Model of the use-case layer of be-task-ca (users, items, carts) and of  *)
(* the two repository implementations it runs against.                     *)
(*                                                                         *)
(* Python objects are modelled with a heap: a User entity is a heap object *)
(* and a variable of the program holds a reference to it, so that          *)
(* InMemoryUserRepository.find_by_id, which returns the stored object      *)
(* itself, and SQLAlchemyUserRepository.find_by_id, which builds a new     *)
(* object from the rows, differ as they do in the code.                    *)
(*                                                                         *)
(* Every request is a task of the event loop.  The handlers of             *)
(* app/main.py are coroutines that call synchronous use cases, so a task   *)
(* runs without interruption except where AddItemToCartUseCase.execute     *)
(* awaits the item service (get_item, check_stock).                        *)
(***************************************************************************)
EXTENDS Bags, Integers, Sequences, FiniteSets, TLC

(* ------------------------------ bounds -------------------------------- *)
\* largest quantity an AddItemToCart request asks for
MaxQuantity == 1
\* largest quantity a CreateItem request gives
MaxStock == 1
\* largest price of a CreateItem request
MaxPrice == 1
\* lines in a cart that a caller of the repositories builds
MaxCart == 1

UserIds == {"u1", "u2"}
UserSeq == <<"u1", "u2">>
ItemIds == {"i1", "i2"}
ItemSeq == <<"i1", "i2">>
Emails == {"a@x", "b@x"}
Passwords == {"pw1", "pw2"}
Names == {"Widget", "Gadget"}
Procs == {1, 2}
RepositoryTypes == {"in_memory", "sqlalchemy"}

\* quantities and prices of requests: the schemas put no constraint on them
CartQuantities == (-1) .. MaxQuantity
ItemQuantities == (-1) .. MaxStock
Prices == (-1) .. MaxPrice

\* heap references: one stored object per user, one object per task, one
\* more while save builds its copy
Refs == 1 .. (Cardinality(UserIds) + Cardinality(Procs) + 1)
NoRef == 0

VARIABLES
    repoType,    \* REPOSITORY_TYPE: which repository implementation is wired
    heap,        \* live User objects: reference -> User
    mem_users,   \* InMemoryUserRepository._users: user id -> reference
    mem_items,   \* InMemoryItemRepository._items, when items are held as objects
    db_users,    \* table users: id -> row
    db_cart,     \* table cart_items: rows in insertion order
    itemStore,   \* the item repository's records: id -> item
    pc,          \* per task: where it stands
    op,          \* per task: the use case it runs
    arg,         \* per task: the request
    usr,         \* per task: AddItemToCart's local variable `user`
    calls,       \* per task: collaborator calls issued so far, in order
    answers,     \* per task: what the item service has answered so far
    before,      \* per task: the persisted users when AddItemToCart was called
    result,      \* per task: the outcome of the use case
    wire         \* the request being served: handler, injected use case, session

vars == <<repoType, heap, mem_users, mem_items, db_users, db_cart, itemStore,
          pc, op, arg, usr, calls, answers, before, result, wire>>

storeVars == <<mem_users, mem_items, db_users, db_cart, itemStore>>

(* ------------------------------ entities ------------------------------ *)

\* variant: the bound is off by one (a zero quantity is accepted)
CartItemValidOffByOne(quantity) == quantity >= 0

\* CartItem.__post_init__: the quantity of a cart line must be positive
CartItemValid(quantity) == quantity > 0

\* variant: the line is built with the two ids exchanged
CartItemSwapsIds(user_id, item_id, quantity) ==
    [user_id |-> item_id, item_id |-> user_id, quantity |-> quantity]

CartItem(user_id, item_id, quantity) ==
    [user_id |-> user_id, item_id |-> item_id, quantity |-> quantity]

User(id, email, hashed_password, cart_items) ==
    [id |-> id, email |-> email, hashed_password |-> hashed_password,
     cart_items |-> cart_items]

\* User.model_dump: asdict(self), every field of the object
UserModelDump(user) == user

\* variant: only the quantity is validated
ItemInvalidQuantityOnly(price, quantity) ==
    IF quantity < 0 THEN "Quantity cannot be negative" ELSE ""

\* variant: only the price is validated
ItemInvalidPriceOnly(price, quantity) ==
    IF price < 0 THEN "Price cannot be negative" ELSE ""

\* Item.__post_init__: "" when the item is valid, else the error raised
ItemInvalid(price, quantity) ==
    IF price < 0 THEN "Price cannot be negative"
    ELSE IF quantity < 0 THEN "Quantity cannot be negative"
    ELSE ""

Item(id, name, price, quantity) ==
    [id |-> id, name |-> name, price |-> price, quantity |-> quantity]

\* variant: the password is stored as given
Sha512Plain(password) == password

\* hashlib.sha512(password).hexdigest(): a function of the password alone,
\* never the password itself
Sha512(password) ==
    CASE password = "pw1" ->
           "74e65264f45665748b385eb67d7531f285cee07d729e0ca18151d2e97be1837d"
           \o "5974b2a3747ad3db3310f0f98cec7fa622620ebd84e28cdc9fa3cc4e91be1b14"
      [] password = "pw2" ->
           "038e0f02c2776458dfe506724b62bd91c35e82ee8aa2bfddc7b19bb9acc7915a"
           \o "bad0593c78c7831f97a0d7b5a0315fea2235f27e7fbf438bd86416dde12adae7"
      [] password = "pw3" ->
           "9e98a8d3ed61072c8da7b61c487d95d7612698d2259374d594e74444692c9f4e"
           \o "0f01e742745af8b4c80d61a7f182255e9cdb4d07f76c619e1fd7e1c49bac05ac"

(* -------------------------------- heap -------------------------------- *)

\* a new object gets the smallest reference not in use
NewRef(h) == CHOOSE r \in Refs \ DOMAIN h : \A s \in Refs \ DOMAIN h : r <= s

Alloc(h, obj) == h @@ (NewRef(h) :> obj)

\* objects no variable refers to are reclaimed
Collect(h, mu, us) ==
    LET live == {mu[u] : u \in DOMAIN mu} \cup {us[p] : p \in Procs}
    IN  [r \in (DOMAIN h) \cap live |-> h[r]]

Range(s) == {s[k] : k \in DOMAIN s}

(* ------------------- InMemoryUserRepository --------------------------- *)

\* save: stores a copy of the caller's object (new object, new list, new
\* CartItems) under user.id and returns the copy
MemUserSave(h, mu, user) ==
    LET cart_items == [k \in DOMAIN user.cart_items |->
                          CartItem(user.cart_items[k].user_id,
                                   user.cart_items[k].item_id,
                                   user.cart_items[k].quantity)]
        saved_user == User(user.id, user.email, user.hashed_password, cart_items)
        new == NewRef(h)
    IN  [heap |-> Alloc(h, saved_user),
         mem_users |-> [u \in (DOMAIN mu) \cup {user.id} |->
                           IF u = user.id THEN new ELSE mu[u]],
         saved |-> new]

\* variant: the lookup compares the email with the id
MemUserFindByEmailWrongField(h, mu, email) ==
    IF \E u \in DOMAIN mu : h[mu[u]].id = email
    THEN mu[CHOOSE u \in DOMAIN mu : h[mu[u]].id = email]
    ELSE NoRef

\* find_by_email: the stored object whose email matches, NoRef when none
MemUserFindByEmail(h, mu, email) ==
    IF \E u \in DOMAIN mu : h[mu[u]].email = email
    THEN mu[CHOOSE u \in DOMAIN mu : h[mu[u]].email = email]
    ELSE NoRef

\* find_by_id: self._users.get(user_id), the stored object itself
MemUserFindById(mu, user_id) ==
    IF user_id \in DOMAIN mu THEN mu[user_id] ELSE NoRef

\* find_cart_items: the stored user's own list, [] for an unknown user
MemUserFindCartItems(h, mu, user_id) ==
    IF user_id \in DOMAIN mu THEN h[mu[user_id]].cart_items ELSE <<>>

(* ------------------- SQLAlchemyUserRepository ------------------------- *)

\* variant: the query has no filter on user_id
SqlUserFindCartItemsNoFilter(cart, user_id) == cart

\* find_cart_items: the rows of cart_items with that user_id
SqlUserFindCartItems(cart, user_id) ==
    SelectSeq(cart, LAMBDA row : row.user_id = user_id)

\* the constraints of the tables users and cart_items, checked by commit:
\* users.email UNIQUE, cart_items PRIMARY KEY (user_id, item_id),
\* cart_items.user_id REFERENCES users.id, cart_items.item_id REFERENCES items.id
SqlConstraintsHold(users, cart, itemTable) ==
    /\ \A u, v \in DOMAIN users : users[u].email = users[v].email => u = v
    /\ \A j, k \in DOMAIN cart :
          (cart[j].user_id = cart[k].user_id /\ cart[j].item_id = cart[k].item_id)
             => j = k
    /\ \A k \in DOMAIN cart :
          cart[k].user_id \in DOMAIN users /\ cart[k].item_id \in DOMAIN itemTable

\* variant: the DELETE has no WHERE clause, every user's rows are deleted
SqlUserSaveDeleteAll(users, cart, itemTable, user) ==
    LET row == [email |-> user.email, hashed_password |-> user.hashed_password]
        users2 == [u \in (DOMAIN users) \cup {user.id} |->
                      IF u = user.id THEN row ELSE users[u]]
        cart2 == user.cart_items
    IN  IF SqlConstraintsHold(users2, cart2, itemTable)
        THEN [ok |-> TRUE, db_users |-> users2, db_cart |-> cart2]
        ELSE [ok |-> FALSE, db_users |-> users, db_cart |-> cart]

\* variant: the INSERTs are not preceded by the DELETE of the user's rows
SqlUserSaveNoDelete(users, cart, itemTable, user) ==
    LET row == [email |-> user.email, hashed_password |-> user.hashed_password]
        users2 == [u \in (DOMAIN users) \cup {user.id} |->
                      IF u = user.id THEN row ELSE users[u]]
        cart2 == cart \o user.cart_items
    IN  IF SqlConstraintsHold(users2, cart2, itemTable)
        THEN [ok |-> TRUE, db_users |-> users2, db_cart |-> cart2]
        ELSE [ok |-> FALSE, db_users |-> users, db_cart |-> cart]

\* variant: the DELETE of the user's rows is issued after the INSERTs
SqlUserSaveDeleteLast(users, cart, itemTable, user) ==
    LET row == [email |-> user.email, hashed_password |-> user.hashed_password]
        users2 == [u \in (DOMAIN users) \cup {user.id} |->
                      IF u = user.id THEN row ELSE users[u]]
        cart2 == SelectSeq(cart, LAMBDA c : c.user_id # user.id)
    IN  IF SqlConstraintsHold(users2, cart2, itemTable)
        THEN [ok |-> TRUE, db_users |-> users2, db_cart |-> cart2]
        ELSE [ok |-> FALSE, db_users |-> users, db_cart |-> cart]

\* save: insert or update the users row, delete every cart_items row of the
\* user, insert one row per element of user.cart_items, commit.  ok is FALSE
\* when the commit raises IntegrityError; nothing is written then.
SqlUserSave(users, cart, itemTable, user) ==
    LET row == [email |-> user.email, hashed_password |-> user.hashed_password]
        users2 == [u \in (DOMAIN users) \cup {user.id} |->
                      IF u = user.id THEN row ELSE users[u]]
        kept == SelectSeq(cart, LAMBDA r : r.user_id # user.id)
        cart2 == kept \o [k \in DOMAIN user.cart_items |->
                            CartItem(user.cart_items[k].user_id,
                                     user.cart_items[k].item_id,
                                     user.cart_items[k].quantity)]
    IN  IF SqlConstraintsHold(users2, cart2, itemTable)
        THEN [ok |-> TRUE, db_users |-> users2, db_cart |-> cart2]
        ELSE [ok |-> FALSE, db_users |-> users, db_cart |-> cart]

\* find_by_email: whether a users row has that email
SqlUserFindByEmail(users, email) == \E u \in DOMAIN users : users[u].email = email

\* find_by_id: a new User built from the users row and the cart rows
SqlUserFindById(users, cart, user_id) ==
    User(user_id, users[user_id].email, users[user_id].hashed_password,
         SqlUserFindCartItems(cart, user_id))

(* ------------------------- item repositories -------------------------- *)

\* variant: the dict is replaced by one that holds the saved item alone
MemItemSaveAlone(tbl, item) ==
    [ok |-> TRUE, itemStore |-> [i \in {item.id} |-> item]]

\* InMemoryItemRepository.save: self._items[item.id] = copy of item
MemItemSave(tbl, item) ==
    [ok |-> TRUE,
     itemStore |-> [i \in (DOMAIN tbl) \cup {item.id} |->
                       IF i = item.id THEN item ELSE tbl[i]]]

\* SQLAlchemyItemRepository.save: db.add(ItemModel(...)); db.commit(), an
\* INSERT: IntegrityError when the id (PRIMARY KEY) or the name (UNIQUE) is
\* already in the table
SqlItemSave(tbl, item) ==
    IF item.id \in DOMAIN tbl \/ \E i \in DOMAIN tbl : tbl[i].name = item.name
    THEN [ok |-> FALSE, itemStore |-> tbl]
    ELSE [ok |-> TRUE, itemStore |-> tbl @@ (item.id :> item)]

\* variant: the lookup compares the name with the id column
ItemFindByNameWrongColumn(tbl, name) == \E i \in DOMAIN tbl : tbl[i].id = name

\* find_by_name (both implementations): exact match on the name
ItemFindByName(tbl, name) == \E i \in DOMAIN tbl : tbl[i].name = name

\* variant: items of quantity 0 are left out of the list
ItemGetAllInStock(tbl) ==
    [item \in {tbl[i] : i \in {k \in DOMAIN tbl : tbl[k].quantity > 0}} |->
        Cardinality({i \in DOMAIN tbl : tbl[i] = item})]

\* get_all (both implementations): one list entry per stored item, as a bag
\* (the order of the list is left out)
ItemGetAll(tbl) ==
    [item \in {tbl[i] : i \in DOMAIN tbl} |->
        Cardinality({i \in DOMAIN tbl : tbl[i] = item})]

(* ------------------------------ results ------------------------------- *)

NoResult == [kind |-> "none", reason |-> "", body |-> <<>>]
\* the use case returned its response
Ok(body) == [kind |-> "ok", reason |-> "", body |-> body]
\* the use case raised ValueError(reason), which the handlers map to 409
ValueError(reason) == [kind |-> "ValueError", reason |-> reason, body |-> <<>>]
\* the commit raised IntegrityError, which no handler catches
IntegrityError == [kind |-> "IntegrityError", reason |-> "", body |-> <<>>]

\* no request has been answered yet
NoLast == [op |-> "", arg |-> <<>>, result |-> NoResult]

\* no handler has been called yet: nothing is injected, no session exists
NoWire == [handler |-> "", use_case |-> "", stage |-> "idle", session |-> "none",
           generator |-> "none", closed_at |-> "", last |-> NoLast]

\* AddToCartResponse(items=[AddToCartRequest(item_id, quantity) for ...])
AddToCartResponse(cart_items) ==
    [k \in DOMAIN cart_items |->
        [item_id |-> cart_items[k].item_id, quantity |-> cart_items[k].quantity]]

\* variant: the response model keeps the fields it does not declare
CreateUserResponseAllowsExtra(user) == user

\* CreateUserResponse: id and email; the schema has no password field
CreateUserResponse(user) ==
    [f \in {"id", "email"} \cap DOMAIN UserModelDump(user) |-> UserModelDump(user)[f]]

(* --------------------------- the event loop --------------------------- *)

\* a task slot is free for a new request
Idle(p) == pc[p] \in {"idle", "done"}

\* execute does not await between user.cart_items.append and the return of
\* save: no other task runs in between
NoneSaving == \A q \in Procs : pc[q] # "save"

\* what a finished task leaves: its locals are dropped
Finish(p, r, log) ==
    /\ pc' = [pc EXCEPT ![p] = "done"]
    /\ usr' = [usr EXCEPT ![p] = NoRef]
    /\ calls' = [calls EXCEPT ![p] = log]
    /\ result' = [result EXCEPT ![p] = r]

\* what the stored users are, whichever implementation is wired
UserIdsStored == IF repoType = "in_memory" THEN DOMAIN mem_users ELSE DOMAIN db_users

\* the aggregate a reader of the repository finds for a stored user
PersistedUser(u) ==
    IF repoType = "in_memory" THEN heap[mem_users[u]]
    ELSE SqlUserFindById(db_users, db_cart, u)

Persisted == [u \in UserIdsStored |-> PersistedUser(u)]

\* a task takes a request of a use case that runs without awaiting
Begin(p, name, request) ==
    /\ Idle(p) /\ NoneSaving
    /\ op' = [op EXCEPT ![p] = name]
    /\ arg' = [arg EXCEPT ![p] = request]
    /\ answers' = [answers EXCEPT ![p] = <<>>]
    /\ before' = [before EXCEPT ![p] = <<>>]

(* --------------------------- CreateUserUseCase ------------------------ *)

CreateUser(p, email, password) ==
    /\ Begin(p, "CreateUser", [email |-> email, password |-> password])
    /\ UNCHANGED <<repoType, wire, itemStore, mem_items>>
    /\ IF repoType = "in_memory"
       THEN /\ UNCHANGED <<db_users, db_cart>>
            /\ IF MemUserFindByEmail(heap, mem_users, email) # NoRef
               THEN /\ Finish(p, ValueError("An user with this email already exists"),
                              <<"find_by_email">>)
                    /\ UNCHANGED <<heap, mem_users>>
               ELSE \E id \in UserIds \ UserIdsStored :   \* uuid4(): an id not in use
                      LET user == User(id, email, Sha512(password), <<>>)
                          s == MemUserSave(heap, mem_users, user)
                      IN  /\ mem_users' = s.mem_users
                          /\ Finish(p, Ok(CreateUserResponse(s.heap[s.saved])),
                                    <<"find_by_email", "save">>)
                          /\ heap' = Collect(s.heap, s.mem_users, usr')
       ELSE /\ UNCHANGED <<heap, mem_users>>
            /\ IF SqlUserFindByEmail(db_users, email)
               THEN /\ Finish(p, ValueError("An user with this email already exists"),
                              <<"find_by_email">>)
                    /\ UNCHANGED <<db_users, db_cart>>
               ELSE \E id \in UserIds \ UserIdsStored :   \* uuid4(): an id not in use
                      LET user == User(id, email, Sha512(password), <<>>)
                          s == SqlUserSave(db_users, db_cart, itemStore, user)
                      IN  /\ db_users' = s.db_users
                          /\ db_cart' = s.db_cart
                          /\ Finish(p, IF s.ok THEN Ok(CreateUserResponse(user))
                                       ELSE IntegrityError,
                                    <<"find_by_email", "save">>)

(* ------------------------- AddItemToCartUseCase ----------------------- *)

\* variant: the duplicate check compares the wrong field
AlreadyInCartWrongField(cart_items, item_id) ==
    \E k \in DOMAIN cart_items : cart_items[k].user_id = item_id

\* any(cart_item.item_id == request.item_id for cart_item in user.cart_items)
AlreadyInCart(cart_items, item_id) ==
    \E k \in DOMAIN cart_items : cart_items[k].item_id = item_id

\* variant: the duplicate check is made before the stock check
CartChecksDuplicateFirst(in_stock, cart_items, item_id, quantity) ==
    IF AlreadyInCart(cart_items, item_id) THEN "Item already in cart"
    ELSE IF ~in_stock THEN "Not enough items in stock"
    ELSE IF ~CartItemValid(quantity) THEN "Quantity must be positive"
    ELSE ""

\* what execute does with the answer of check_stock: the error it raises, or
\* "" when the CartItem is built and appended
CartChecks(in_stock, cart_items, item_id, quantity) ==
    IF ~in_stock THEN "Not enough items in stock"
    ELSE IF AlreadyInCart(cart_items, item_id) THEN "Item already in cart"
    ELSE IF ~CartItemValid(quantity) THEN "Quantity must be positive"
    ELSE ""

\* variant: the new line replaces the cart
CartAppendReplaces(cart_items, cart_item) == <<cart_item>>

\* user.cart_items.append(cart_item)
CartAppend(cart_items, cart_item) == Append(cart_items, cart_item)

\* variant: the line is appended to the object before the checks are made
AppendedToBeforeChecks(h, ref, reason, cart_item) ==
    [h EXCEPT ![ref].cart_items = Append(@, cart_item)]

\* the heap after the checks: the object `user` gets the new line only when
\* no check has raised (reason = "")
AppendedTo(h, ref, reason, cart_item) ==
    IF reason # "" THEN h
    ELSE [h EXCEPT ![ref].cart_items = CartAppend(@, cart_item)]

\* execute up to its first await: find_by_id, the user check, get_item issued
AddItemToCartStart(p, user_id, item_id, quantity) ==
    /\ Idle(p) /\ NoneSaving
    /\ op' = [op EXCEPT ![p] = "AddItemToCart"]
    /\ arg' = [arg EXCEPT ![p] = [user_id |-> user_id, item_id |-> item_id,
                                  quantity |-> quantity]]
    /\ answers' = [answers EXCEPT ![p] = <<>>]
    /\ before' = [before EXCEPT ![p] = Persisted]
    /\ UNCHANGED <<repoType, wire, storeVars>>
    /\ IF user_id \notin UserIdsStored
       THEN /\ Finish(p, ValueError("User does not exists"), <<"find_by_id">>)
            /\ UNCHANGED heap
       ELSE /\ pc' = [pc EXCEPT ![p] = "get_item"]
            /\ calls' = [calls EXCEPT ![p] = <<"find_by_id", "get_item">>]
            /\ result' = [result EXCEPT ![p] = NoResult]
            /\ IF repoType = "in_memory"
               THEN /\ usr' = [usr EXCEPT ![p] = MemUserFindById(mem_users, user_id)]
                    /\ UNCHANGED heap
               ELSE /\ usr' = [usr EXCEPT ![p] = NewRef(heap)]
                    /\ heap' = Alloc(heap, SqlUserFindById(db_users, db_cart, user_id))

\* variant: check_stock is awaited before the answer of get_item is examined
AddItemToCartGetItemNoShortCircuit(p, item) ==
    /\ pc[p] = "get_item" /\ NoneSaving
    /\ UNCHANGED <<repoType, wire, storeVars, op, arg, before>>
    /\ answers' = [answers EXCEPT ![p] = Append(@, item)]
    /\ IF ~item
       THEN /\ Finish(p, ValueError("Item does not exists"),
                      Append(calls[p], "check_stock"))
            /\ heap' = Collect(heap, mem_users, usr')
       ELSE /\ pc' = [pc EXCEPT ![p] = "check_stock"]
            /\ calls' = [calls EXCEPT ![p] = Append(@, "check_stock")]
            /\ UNCHANGED <<heap, usr, result>>

\* get_item returns (item: whether the service knows the item); the item
\* check, check_stock issued
AddItemToCartGetItem(p, item) ==
    /\ pc[p] = "get_item" /\ NoneSaving
    /\ UNCHANGED <<repoType, wire, storeVars, op, arg, before>>
    /\ answers' = [answers EXCEPT ![p] = Append(@, item)]
    /\ IF ~item
       THEN /\ Finish(p, ValueError("Item does not exists"), calls[p])
            /\ heap' = Collect(heap, mem_users, usr')
       ELSE /\ pc' = [pc EXCEPT ![p] = "check_stock"]
            /\ calls' = [calls EXCEPT ![p] = Append(@, "check_stock")]
            /\ UNCHANGED <<heap, usr, result>>

\* check_stock returns; the stock check, the duplicate check, the CartItem,
\* user.cart_items.append(cart_item)
AddItemToCartCheckStock(p, in_stock) ==
    /\ pc[p] = "check_stock" /\ NoneSaving
    /\ UNCHANGED <<repoType, wire, storeVars, op, arg, before>>
    /\ answers' = [answers EXCEPT ![p] = Append(@, in_stock)]
    /\ LET user == heap[usr[p]]
           reason == CartChecks(in_stock, user.cart_items, arg[p].item_id,
                                arg[p].quantity)
           cart_item == CartItem(arg[p].user_id, arg[p].item_id, arg[p].quantity)
       IN  IF reason # ""
           THEN /\ Finish(p, ValueError(reason), calls[p])
                /\ heap' = Collect(AppendedTo(heap, usr[p], reason, cart_item),
                                   mem_users, usr')
           ELSE /\ pc' = [pc EXCEPT ![p] = "save"]
                /\ heap' = AppendedTo(heap, usr[p], reason, cart_item)
                /\ UNCHANGED <<usr, calls, result>>

\* self.user_repository.save(user) and the response built from user.cart_items
AddItemToCartSave(p) ==
    /\ pc[p] = "save"
    /\ UNCHANGED <<repoType, wire, itemStore, mem_items, op, arg, answers, before>>
    /\ IF repoType = "in_memory"
       THEN LET s == MemUserSave(heap, mem_users, heap[usr[p]])
            IN  /\ mem_users' = s.mem_users
                /\ Finish(p, Ok(AddToCartResponse(heap[usr[p]].cart_items)),
                          Append(calls[p], "save"))
                /\ heap' = Collect(s.heap, s.mem_users, usr')
                /\ UNCHANGED <<db_users, db_cart>>
       ELSE LET s == SqlUserSave(db_users, db_cart, itemStore, heap[usr[p]])
            IN  /\ db_users' = s.db_users
                /\ db_cart' = s.db_cart
                /\ Finish(p, IF s.ok THEN Ok(AddToCartResponse(heap[usr[p]].cart_items))
                             ELSE IntegrityError,
                          Append(calls[p], "save"))
                /\ heap' = Collect(heap, mem_users, usr')
                /\ UNCHANGED mem_users

(* ------------------------ ListItemsInCartUseCase ---------------------- *)

\* variant: the lines that were read are deleted from cart_items
ListItemsInCartConsuming(p, user_id) ==
    /\ Begin(p, "ListItemsInCart", [user_id |-> user_id])
    /\ UNCHANGED <<repoType, wire, mem_users, mem_items, db_users, itemStore, heap>>
    /\ db_cart' = SelectSeq(db_cart, LAMBDA r : r.user_id # user_id)
    /\ LET cart_items == IF repoType = "in_memory"
                         THEN MemUserFindCartItems(heap, mem_users, user_id)
                         ELSE SqlUserFindCartItems(db_cart, user_id)
       IN  Finish(p, Ok(AddToCartResponse(cart_items)), <<"find_cart_items">>)

\* ListItemsInCartUseCase.execute
ListItemsInCart(p, user_id) ==
    /\ Begin(p, "ListItemsInCart", [user_id |-> user_id])
    /\ UNCHANGED <<repoType, wire, storeVars, heap>>
    /\ LET cart_items == IF repoType = "in_memory"
                         THEN MemUserFindCartItems(heap, mem_users, user_id)
                         ELSE SqlUserFindCartItems(db_cart, user_id)
       IN  Finish(p, Ok(AddToCartResponse(cart_items)), <<"find_cart_items">>)

(* --------------------------- item use cases --------------------------- *)

ItemSave(tbl, item) ==
    IF repoType = "in_memory" THEN MemItemSave(tbl, item) ELSE SqlItemSave(tbl, item)

\* CreateItemUseCase.execute
CreateItem(p, name, price, quantity) ==
    /\ Begin(p, "CreateItem", [name |-> name, price |-> price, quantity |-> quantity])
    /\ UNCHANGED <<repoType, wire, heap, mem_users, mem_items, db_users, db_cart>>
    /\ IF ItemFindByName(itemStore, name)
       THEN /\ Finish(p, ValueError("An item with this name already exists"),
                      <<"find_by_name">>)
            /\ UNCHANGED itemStore
       ELSE IF ItemInvalid(price, quantity) # ""
       THEN /\ Finish(p, ValueError(ItemInvalid(price, quantity)), <<"find_by_name">>)
            /\ UNCHANGED itemStore
       ELSE \E id \in ItemIds \ DOMAIN itemStore :   \* uuid4(): an id not in use
              LET s == ItemSave(itemStore, Item(id, name, price, quantity))
              IN  /\ itemStore' = s.itemStore
                  /\ Finish(p, IF s.ok THEN Ok(Item(id, name, price, quantity))
                               ELSE IntegrityError,
                            <<"find_by_name", "save">>)

\* GetAllItemsUseCase.execute
GetAllItems(p) ==
    /\ Begin(p, "GetAllItems", <<>>)
    /\ UNCHANGED <<repoType, wire, storeVars, heap>>
    /\ Finish(p, Ok(ItemGetAll(itemStore)), <<"get_all">>)

(* --------------------------- specification ---------------------------- *)

Init ==
    /\ repoType \in RepositoryTypes
    /\ heap = <<>>
    /\ mem_users = <<>>
    /\ mem_items = <<>>
    /\ db_users = <<>>
    /\ db_cart = <<>>
    /\ itemStore = <<>>
    /\ pc = [p \in Procs |-> "idle"]
    /\ op = [p \in Procs |-> ""]
    /\ arg = [p \in Procs |-> <<>>]
    /\ usr = [p \in Procs |-> NoRef]
    /\ calls = [p \in Procs |-> <<>>]
    /\ answers = [p \in Procs |-> <<>>]
    /\ before = [p \in Procs |-> <<>>]
    /\ result = [p \in Procs |-> NoResult]
    /\ wire = NoWire

\* the task that serves the requests when they do not overlap
MainTask == 1

UserRequest(p) ==
    \/ \E email \in Emails : CreateUser(p, email, "pw1")
    \/ \E user_id \in UserIds, item_id \in ItemIds, quantity \in CartQuantities :
          AddItemToCartStart(p, user_id, item_id, quantity)
    \/ \E item \in BOOLEAN : AddItemToCartGetItem(p, item)
    \/ \E in_stock \in BOOLEAN : AddItemToCartCheckStock(p, in_stock)
    \/ AddItemToCartSave(p)
    \/ \E user_id \in UserIds : ListItemsInCart(p, user_id)

ItemRequest(p) ==
    \/ \E name \in Names, price \in Prices, quantity \in ItemQuantities :
          CreateItem(p, name, price, quantity)
    \/ GetAllItems(p)

\* requests served one after the other: users, carts, and the items the
\* carts refer to
Next ==
    \/ UserRequest(MainTask)
    \/ \E name \in Names : CreateItem(MainTask, name, 0, 0)

Spec == Init /\ [][Next]_vars

\* the item use cases alone, served one after the other
NextItem == ItemRequest(MainTask)

SpecItem == Init /\ [][NextItem]_vars

(* ----------------------- overlapping requests ------------------------- *)

\* The store after CreateItem(Widget), CreateItem(Gadget) and one CreateUser:
\* every item id is in the item table and user u1 is stored with an empty cart.
InitConc ==
    /\ repoType \in RepositoryTypes
    /\ mem_items = <<>>
    /\ itemStore = [i \in ItemIds |->
                      Item(i, IF i = "i1" THEN "Widget" ELSE "Gadget", 0, 0)]
    /\ LET user == User("u1", "a@x", Sha512("pw1"), <<>>)
           m == MemUserSave(<<>>, <<>>, user)
           d == SqlUserSave(<<>>, <<>>, itemStore, user)
       IN  IF repoType = "in_memory"
           THEN heap = m.heap /\ mem_users = m.mem_users
                /\ db_users = <<>> /\ db_cart = <<>>
           ELSE heap = <<>> /\ mem_users = <<>>
                /\ db_users = d.db_users /\ db_cart = d.db_cart
    /\ pc = [p \in Procs |-> "idle"]
    /\ op = [p \in Procs |-> ""]
    /\ arg = [p \in Procs |-> <<>>]
    /\ usr = [p \in Procs |-> NoRef]
    /\ calls = [p \in Procs |-> <<>>]
    /\ answers = [p \in Procs |-> <<>>]
    /\ before = [p \in Procs |-> <<>>]
    /\ result = [p \in Procs |-> NoResult]
    /\ wire = NoWire

\* the quantities of overlapping requests: one that CartItem rejects (zero;
\* a negative one is rejected likewise) and the valid ones
ConcQuantities == 0 .. MaxQuantity

\* AddItemToCart requests of several tasks, interleaved where execute awaits
NextConc ==
    \E p \in Procs :
        \/ \E user_id \in UserIds, item_id \in ItemIds, quantity \in ConcQuantities :
              AddItemToCartStart(p, user_id, item_id, quantity)
        \/ \E item \in BOOLEAN : AddItemToCartGetItem(p, item)
        \/ \E in_stock \in BOOLEAN : AddItemToCartCheckStock(p, in_stock)
        \/ AddItemToCartSave(p)

SpecConc == InitConc /\ [][NextConc]_vars

(* ----------------------------- user requests -------------------------- *)

\* CreateUser with every email and password and ListItemsInCart, by any task
NextUser ==
    \E p \in Procs :
        \/ \E email \in Emails, password \in Passwords : CreateUser(p, email, password)
        \/ \E user_id \in UserIds : ListItemsInCart(p, user_id)

SpecUser == Init /\ [][NextUser]_vars

(* ------------------- items and carts, one at a time ------------------- *)

\* CreateItem with every price and quantity, one CreateUser, and
\* AddItemToCart, served one after the other
NextValid ==
    \/ \E name \in Names, price \in Prices, quantity \in ItemQuantities :
          CreateItem(MainTask, name, price, quantity)
    \/ CreateUser(MainTask, "a@x", "pw1")
    \/ \E user_id \in UserIds, item_id \in ItemIds, quantity \in CartQuantities :
          AddItemToCartStart(MainTask, user_id, item_id, quantity)
    \/ \E item \in BOOLEAN : AddItemToCartGetItem(MainTask, item)
    \/ \E in_stock \in BOOLEAN : AddItemToCartCheckStock(MainTask, in_stock)
    \/ AddItemToCartSave(MainTask)

SpecValid == Init /\ [][NextValid]_vars

(* --------------------- every use case, one at a time ------------------ *)

\* the five use cases served one after the other on valid requests: items of
\* quantity 0 or MaxStock, cart lines of quantity MaxQuantity
NextAll ==
    \/ \E name \in Names, quantity \in {0, MaxStock} :
          CreateItem(MainTask, name, 0, quantity)
    \/ GetAllItems(MainTask)
    \/ \E email \in Emails : CreateUser(MainTask, email, "pw1")
    \/ \E user_id \in UserIds, item_id \in ItemIds :
          AddItemToCartStart(MainTask, user_id, item_id, MaxQuantity)
    \/ \E item \in BOOLEAN : AddItemToCartGetItem(MainTask, item)
    \/ \E in_stock \in BOOLEAN : AddItemToCartCheckStock(MainTask, in_stock)
    \/ AddItemToCartSave(MainTask)
    \/ \E user_id \in UserIds : ListItemsInCart(MainTask, user_id)

SpecAll == Init /\ [][NextAll]_vars

(* --------------------------- request wiring --------------------------- *)

\* the route handlers of app/main.py
MainHandlers == {"post_customer", "post_cart", "get_cart", "post_item", "get_items"}

\* GET /items of item_router, which app.py includes
LegacyHandlers == {"item_router.get_items"}

\* the use case that the provider named in the handler's Depends(...) builds
Injected(handler) ==
    CASE handler = "post_customer" -> "CreateUser"
      [] handler = "post_cart" -> "AddItemToCart"
      [] handler = "get_cart" -> "ListItemsInCart"
      [] handler = "post_item" -> "CreateItem"
      [] handler = "get_items" -> "GetAllItems"
      [] handler = "item_router.get_items" -> "ListItemsInCart"

\* when, in the handling of the request, the generator of get_db is finalized
Phase(p) ==
    IF wire.stage = "responded" \/ pc[p] = "done" THEN "after"
    ELSE IF pc[p] = "idle" THEN "before"
    ELSE "during"

\* the dependencies of a handler are resolved.  REPOSITORY_TYPE in_memory:
\* the provider constructs a new, empty repository, and the one of the
\* request before is unreachable.  Otherwise SessionLocal() opens a session
\* and next(...) leaves the generator of get_db suspended at its yield,
\* referenced by nothing.  The providers of dependencies.py always build
\* the relational repository.
Provide(p, handler) ==
    /\ wire.stage \in {"idle", "responded"}
    /\ handler \in LegacyHandlers => repoType = "sqlalchemy"
    /\ wire' = [wire EXCEPT !.handler = handler,
                            !.use_case = Injected(handler),
                            !.stage = "provided",
                            !.session = IF repoType = "in_memory" THEN "none" ELSE "open",
                            !.generator = IF repoType = "in_memory" THEN "none"
                                          ELSE "suspended",
                            !.closed_at = ""]
    /\ pc' = [pc EXCEPT ![p] = "idle"]
    /\ IF repoType = "in_memory"
       THEN heap' = <<>> /\ mem_users' = <<>> /\ itemStore' = <<>>
       ELSE UNCHANGED <<heap, mem_users, itemStore>>
    /\ UNCHANGED <<repoType, mem_items, db_users, db_cart, op, arg, usr, calls,
                   answers, before, result>>

\* the suspended generator is finalized: GeneratorExit is raised at the
\* yield and the finally clause runs db.close().  A reference-counting
\* build does it as soon as next(...) has returned, before the use case
\* runs; another build does it at any later time, or never.
GenFinalize(p) ==
    /\ wire.generator = "suspended"
    /\ wire' = [wire EXCEPT !.generator = "finalized",
                            !.session = "closed",
                            !.closed_at = Phase(p)]
    /\ UNCHANGED <<repoType, heap, storeVars, pc, op, arg, usr, calls, answers,
                   before, result>>

\* the handler awaits or calls the injected use case
Serving(p, handler) ==
    wire.stage = "provided" /\ wire.handler = handler /\ pc[p] # "done"

\* a repository call was made on the session after db.close(): the session
\* has begun a new transaction, which nothing closes
UsedAfterClose(p) ==
    /\ wire.session = "closed"
    /\ \/ wire.closed_at = "before" /\ calls[p] # <<>>
       \/ wire.closed_at = "during" /\ "save" \in Range(calls[p])

\* the argument that execute was called without
TypeError(name) ==
    [kind |-> "TypeError",
     reason |-> "execute() missing 1 required positional argument: '" \o name \o "'",
     body |-> <<>>]

\* get_items of item/api.py: use_case.execute() on the injected
\* ListItemsInCartUseCase, whose execute takes user_id
LegacyGetItems(p) ==
    /\ Begin(p, wire.use_case, <<>>)
    /\ UNCHANGED <<repoType, wire, storeVars, heap>>
    /\ Finish(p, TypeError("user_id"), <<>>)

\* the handler returns, or raises HTTPException: nothing is closed here
Respond(p) ==
    /\ wire.stage = "provided" /\ pc[p] = "done"
    /\ wire' = [wire EXCEPT !.stage = "responded",
                            !.session = IF UsedAfterClose(p) THEN "open" ELSE @,
                            !.last = [op |-> op[p], arg |-> arg[p],
                                      result |-> result[p]]]
    /\ UNCHANGED <<repoType, heap, storeVars, pc, op, arg, usr, calls, answers,
                   before, result>>

\* the item the carts of these requests refer to
WiredItem == "i1"

\* POST /users
post_customer(p) ==
    Serving(p, "post_customer") /\ CreateUser(p, "a@x", "pw1")

\* POST /users/{user_id}/cart, with its two awaits
post_cart(p) ==
    \/ /\ Serving(p, "post_cart")
       /\ \E user_id \in UserIds : AddItemToCartStart(p, user_id, WiredItem, MaxQuantity)
    \/ Serving(p, "post_cart") /\ \E item \in BOOLEAN : AddItemToCartGetItem(p, item)
    \/ Serving(p, "post_cart") /\ AddItemToCartCheckStock(p, TRUE)
    \/ Serving(p, "post_cart") /\ AddItemToCartSave(p)

\* GET /users/{user_id}/cart
get_cart(p) ==
    Serving(p, "get_cart") /\ \E user_id \in UserIds : ListItemsInCart(p, user_id)

\* POST /items
post_item(p) ==
    Serving(p, "post_item") /\ CreateItem(p, "Widget", 0, 0)

\* GET /items of app/main.py
get_items(p) ==
    Serving(p, "get_items") /\ GetAllItems(p)

\* GET /items of item_router
item_router_get_items(p) ==
    Serving(p, "item_router.get_items") /\ LegacyGetItems(p)

\* requests served one after the other through the handlers and their
\* providers
NextWired ==
    \/ \E handler \in MainHandlers \cup LegacyHandlers : Provide(MainTask, handler)
    \/ GenFinalize(MainTask)
    \/ post_customer(MainTask)
    \/ post_cart(MainTask)
    \/ get_cart(MainTask)
    \/ post_item(MainTask)
    \/ get_items(MainTask)
    \/ item_router_get_items(MainTask)
    \/ Respond(MainTask)

SpecWired == Init /\ [][NextWired]_vars

(* ------------------- the repositories, driven directly ---------------- *)

\* One caller issues the same repository operations to an in-memory
\* repository (run MemRun) and to a relational repository (run SqlRun), each
\* relational operation on a session of its own as get_db provides.  The
\* caller keeps a reference to the object it built or was handed (usr); the
\* relational repository hands out objects built from rows, which share
\* nothing with what is stored, so they are kept as values.

MemRun == 1
SqlRun == 2

\* Python's None
None == [kind |-> "None"]

Deref(h, ref) == IF ref = NoRef THEN None ELSE h[ref]

\* Objects that neither a repository nor the caller refers to are reclaimed,
\* and the others are numbered in the order stored users, stored items, the
\* caller's object: which address an object has is not observable.
LiveRefs(mu, mi, us) ==
    LET users == SelectSeq(UserSeq, LAMBDA u : u \in DOMAIN mu)
        items == SelectSeq(ItemSeq, LAMBDA i : i \in DOMAIN mi)
        stored == [k \in DOMAIN users |-> mu[users[k]]]
                  \o [k \in DOMAIN items |-> mi[items[k]]]
    IN  IF us[MemRun] = NoRef \/ us[MemRun] \in Range(stored)
        THEN stored ELSE Append(stored, us[MemRun])

LiveOnly(h, mu, mi, us) ==
    LET live == LiveRefs(mu, mi, us)
        at(ref) == IF ref = NoRef THEN NoRef
                   ELSE CHOOSE k \in DOMAIN live :
                           live[k] = ref /\ \A j \in 1 .. (k - 1) : live[j] # ref
    IN  [heap |-> [k \in {at(live[j]) : j \in DOMAIN live} |-> h[live[k]]],
         mem_users |-> [u \in DOMAIN mu |-> at(mu[u])],
         mem_items |-> [i \in DOMAIN mi |-> at(mi[i])],
         usr |-> [p \in Procs |-> at(us[p])]]

\* InMemoryItemRepository.save on the caller's object: a copy is stored
InMemoryItemSave(h, mi, ref) ==
    LET item == h[ref]
        saved_item == Item(item.id, item.name, item.price, item.quantity)
        new == NewRef(h)
    IN  [heap |-> Alloc(h, saved_item),
         mem_items |-> [i \in (DOMAIN mi) \cup {item.id} |->
                           IF i = item.id THEN new ELSE mi[i]],
         saved |-> new]

\* InMemoryItemRepository.find_by_id: self._items.get(item_id), the stored object
InMemoryItemFindById(mi, item_id) ==
    IF item_id \in DOMAIN mi THEN mi[item_id] ELSE NoRef

\* InMemoryItemRepository.find_by_name: the stored objects of that name; the
\* method returns the first of them in the dict's order, which is not kept here
InMemoryItemFindByName(h, mi, name) ==
    IF \E i \in DOMAIN mi : h[mi[i]].name = name
    THEN {mi[i] : i \in {k \in DOMAIN mi : h[mi[k]].name = name}}
    ELSE {NoRef}

\* InMemoryItemRepository.get_all: list(self._items.values()), as a bag
InMemoryItemGetAll(h, mi) ==
    [item \in {h[mi[i]] : i \in DOMAIN mi} |->
        Cardinality({i \in DOMAIN mi : h[mi[i]] = item})]

\* SQLAlchemyItemRepository.find_by_id: an Item built from the row, or None
SqlItemFindById(tbl, id) == IF id \in DOMAIN tbl THEN tbl[id] ELSE None

\* SQLAlchemyItemRepository.find_by_name: an Item built from the row, or None
SqlItemFindByName(tbl, name) ==
    IF \E i \in DOMAIN tbl : tbl[i].name = name
    THEN tbl[CHOOSE i \in DOMAIN tbl : tbl[i].name = name]
    ELSE None

\* the Item entities a caller can build (the constructor refuses negatives)
RepoItems ==
    {Item(id, name, price, quantity) :
        id \in ItemIds, name \in Names, price \in {0}, quantity \in 0 .. MaxStock}

ItemOps == {"item.save", "item.find_by_id", "item.find_by_name", "item.get_all",
            "item.mutate"}

\* the item repositories are driven from empty
ItemRun ==
    \/ op[MemRun] \in ItemOps
    \/ op[MemRun] = "" /\ DOMAIN itemStore = {}

\* what a reader finds stored in the repository of run p
StoredItems(p) ==
    IF p = MemRun THEN [i \in DOMAIN mem_items |-> heap[mem_items[i]]]
    ELSE itemStore

StoredUsers(p) ==
    IF p = MemRun THEN [u \in DOMAIN mem_users |-> heap[mem_users[u]]]
    ELSE [u \in DOMAIN db_users |-> SqlUserFindById(db_users, db_cart, u)]

NothingStored == [p \in Procs |-> <<>>]

\* One operation issued to both repositories.  calls keeps the operation that
\* gave the caller the object it holds, followed by the mutations it has made
\* to it since; before keeps what was stored when a save was issued.
RepoStep(name, request, observed, was) ==
    /\ \A p \in Procs : Idle(p)
    /\ op' = [p \in Procs |-> name]
    /\ arg' = [p \in Procs |-> request]
    /\ pc' = [p \in Procs |-> "done"]
    /\ calls' = [p \in Procs |->
                    IF name \in {"item.mutate", "user.mutate"}
                    THEN <<calls[p][1], name>> ELSE <<name>>]
    /\ result' = observed
    /\ before' = was
    /\ UNCHANGED <<repoType, wire, answers>>

\* x = Item(...); repository.save(x)
RepoItemSave(item) ==
    /\ ItemRun
    /\ LET x == NewRef(heap)
           m == InMemoryItemSave(Alloc(heap, item), mem_items, x)
           d == SqlItemSave(itemStore, item)
           live == LiveOnly(m.heap, mem_users, m.mem_items,
                            [p \in Procs |-> IF p = MemRun THEN x ELSE NoRef])
       IN  /\ mem_items' = live.mem_items
           /\ itemStore' = d.itemStore
           /\ usr' = live.usr
           /\ heap' = live.heap
           /\ RepoStep("item.save", [item |-> item],
                       [p \in Procs |->
                           IF p = MemRun THEN Ok(m.heap[m.saved])
                           ELSE IF d.ok THEN Ok(item) ELSE IntegrityError],
                       [p \in Procs |-> StoredItems(p)])
    /\ UNCHANGED <<mem_users, db_users, db_cart>>

\* x.quantity = quantity, on the object the caller holds
RepoItemMutate(quantity) ==
    /\ op[MemRun] \in ItemOps
    /\ usr[MemRun] # NoRef
    /\ heap' = [heap EXCEPT ![usr[MemRun]].quantity = quantity]
    /\ RepoStep("item.mutate", [quantity |-> quantity], [p \in Procs |-> NoResult],
                       NothingStored)
    /\ UNCHANGED <<storeVars, usr>>

\* x = repository.find_by_id(id)
RepoItemFindById(id) ==
    /\ ItemRun
    /\ usr' = [p \in Procs |->
                  IF p = MemRun THEN InMemoryItemFindById(mem_items, id) ELSE NoRef]
    /\ heap' = LiveOnly(heap, mem_users, mem_items, usr').heap
    /\ RepoStep("item.find_by_id", [id |-> id],
                [p \in Procs |->
                    IF p = MemRun THEN Ok(Deref(heap, usr'[MemRun]))
                    ELSE Ok(SqlItemFindById(itemStore, id))],
                       NothingStored)
    /\ UNCHANGED storeVars

\* x = repository.find_by_name(name)
RepoItemFindByName(name) ==
    /\ ItemRun
    /\ \E ref \in InMemoryItemFindByName(heap, mem_items, name) :
          usr' = [p \in Procs |-> IF p = MemRun THEN ref ELSE NoRef]
    /\ heap' = LiveOnly(heap, mem_users, mem_items, usr').heap
    /\ RepoStep("item.find_by_name", [name |-> name],
                [p \in Procs |->
                    IF p = MemRun THEN Ok(Deref(heap, usr'[MemRun]))
                    ELSE Ok(SqlItemFindByName(itemStore, name))],
                       NothingStored)
    /\ UNCHANGED storeVars

\* repository.get_all()
RepoItemGetAll ==
    /\ ItemRun
    /\ usr' = [p \in Procs |-> NoRef]
    /\ heap' = LiveOnly(heap, mem_users, mem_items, usr').heap
    /\ RepoStep("item.get_all", <<>>,
                [p \in Procs |->
                    IF p = MemRun THEN Ok(InMemoryItemGetAll(heap, mem_items))
                    ELSE Ok(ItemGetAll(itemStore))],
                       NothingStored)
    /\ UNCHANGED storeVars

ItemRepoOps ==
    \/ \E item \in RepoItems : RepoItemSave(item)
    \/ \E quantity \in 0 .. MaxStock : RepoItemMutate(quantity)
    \/ \E id \in ItemIds : RepoItemFindById(id)
    \/ \E name \in Names : RepoItemFindByName(name)
    \/ RepoItemGetAll

\* variant: the caller's object itself is stored
InMemoryUserSaveNoCopy(h, mu, ref) ==
    [heap |-> h,
     mem_users |-> [u \in (DOMAIN mu) \cup {h[ref].id} |->
                       IF u = h[ref].id THEN ref ELSE mu[u]],
     saved |-> ref]

\* InMemoryUserRepository.save on the caller's object: a deep copy is stored
InMemoryUserSave(h, mu, ref) == MemUserSave(h, mu, h[ref])

\* InMemoryUserRepository.find_by_email: the stored objects of that email; the
\* method returns the first of them in the dict's order, which is not kept here
InMemoryUserFindByEmail(h, mu, email) ==
    IF \E u \in DOMAIN mu : h[mu[u]].email = email
    THEN {mu[u] : u \in {v \in DOMAIN mu : h[mu[v]].email = email}}
    ELSE {NoRef}

\* the carts a caller builds: at most MaxCart lines of the user, of different
\* items in the order of ItemSeq, each of quantity MaxQuantity
RepoCarts(user_id) ==
    {[k \in DOMAIN SelectSeq(ItemSeq, LAMBDA i : i \in S) |->
         CartItem(user_id, SelectSeq(ItemSeq, LAMBDA i : i \in S)[k], MaxQuantity)] :
       S \in {T \in SUBSET ItemIds : Cardinality(T) <= MaxCart}}

\* the User entities a caller builds
RepoUsers ==
    UNION {{User(id, email, Sha512("pw1"), cart_items) :
               email \in Emails, cart_items \in RepoCarts(id)} : id \in UserIds}

UserOps == {"user.save", "user.find_by_id", "user.find_by_email",
            "user.find_cart_items", "user.mutate"}

\* the user repositories are driven over an item table that holds every item
UserRun ==
    \/ op[MemRun] \in UserOps
    \/ op[MemRun] = "" /\ DOMAIN itemStore = ItemIds

\* x = User(...); repository.save(x)
RepoUserSave(user) ==
    /\ UserRun
    /\ LET x == NewRef(heap)
           m == InMemoryUserSave(Alloc(heap, user), mem_users, x)
           d == SqlUserSave(db_users, db_cart, itemStore, user)
           live == LiveOnly(m.heap, m.mem_users, mem_items,
                            [p \in Procs |-> IF p = MemRun THEN x ELSE NoRef])
       IN  /\ mem_users' = live.mem_users
           /\ db_users' = d.db_users
           /\ db_cart' = d.db_cart
           /\ usr' = live.usr
           /\ heap' = live.heap
           /\ RepoStep("user.save", [user |-> user],
                       [p \in Procs |->
                           IF p = MemRun THEN Ok(m.heap[m.saved])
                           ELSE IF d.ok THEN Ok(user) ELSE IntegrityError],
                       [p \in Procs |-> StoredUsers(p)])
    /\ UNCHANGED <<mem_items, itemStore>>

\* x.cart_items.append(CartItem(...)), on the object the caller holds
RepoUserMutate(item_id) ==
    /\ op[MemRun] \in UserOps
    /\ usr[MemRun] # NoRef
    /\ Len(heap[usr[MemRun]].cart_items) < MaxCart
    /\ ~AlreadyInCart(heap[usr[MemRun]].cart_items, item_id)
    /\ heap' = [heap EXCEPT ![usr[MemRun]].cart_items =
                   Append(@, CartItem(heap[usr[MemRun]].id, item_id, MaxQuantity))]
    /\ RepoStep("user.mutate", [item_id |-> item_id], [p \in Procs |-> NoResult],
                       NothingStored)
    /\ UNCHANGED <<storeVars, usr>>

\* x = repository.find_by_id(user_id)
RepoUserFindById(user_id) ==
    /\ UserRun
    /\ usr' = [p \in Procs |->
                  IF p = MemRun THEN MemUserFindById(mem_users, user_id) ELSE NoRef]
    /\ heap' = LiveOnly(heap, mem_users, mem_items, usr').heap
    /\ RepoStep("user.find_by_id", [user_id |-> user_id],
                [p \in Procs |->
                    IF p = MemRun THEN Ok(Deref(heap, usr'[MemRun]))
                    ELSE IF user_id \in DOMAIN db_users
                         THEN Ok(SqlUserFindById(db_users, db_cart, user_id))
                         ELSE Ok(None)],
                       NothingStored)
    /\ UNCHANGED storeVars

\* x = repository.find_by_email(email)
RepoUserFindByEmail(email) ==
    /\ UserRun
    /\ \E ref \in InMemoryUserFindByEmail(heap, mem_users, email) :
          usr' = [p \in Procs |-> IF p = MemRun THEN ref ELSE NoRef]
    /\ heap' = LiveOnly(heap, mem_users, mem_items, usr').heap
    /\ RepoStep("user.find_by_email", [email |-> email],
                [p \in Procs |->
                    IF p = MemRun THEN Ok(Deref(heap, usr'[MemRun]))
                    ELSE IF SqlUserFindByEmail(db_users, email)
                         THEN Ok(SqlUserFindById(db_users, db_cart,
                                    CHOOSE u \in DOMAIN db_users :
                                        db_users[u].email = email))
                         ELSE Ok(None)],
                       NothingStored)
    /\ UNCHANGED storeVars

\* repository.find_cart_items(user_id)
RepoUserFindCartItems(user_id) ==
    /\ UserRun
    /\ usr' = [p \in Procs |-> NoRef]
    /\ heap' = LiveOnly(heap, mem_users, mem_items, usr').heap
    /\ RepoStep("user.find_cart_items", [user_id |-> user_id],
                [p \in Procs |->
                    IF p = MemRun
                    THEN Ok(MemUserFindCartItems(heap, mem_users, user_id))
                    ELSE Ok(SqlUserFindCartItems(db_cart, user_id))],
                       NothingStored)
    /\ UNCHANGED storeVars

UserRepoOps ==
    \/ \E user \in RepoUsers : RepoUserSave(user)
    \/ \E item_id \in ItemIds : RepoUserMutate(item_id)
    \/ \E user_id \in UserIds : RepoUserFindById(user_id)
    \/ \E email \in Emails : RepoUserFindByEmail(email)
    \/ \E user_id \in UserIds : RepoUserFindCartItems(user_id)

\* every store empty, or the item table filled for the user repositories
InitRepo ==
    /\ repoType = "sqlalchemy"
    /\ heap = <<>>
    /\ mem_users = <<>>
    /\ mem_items = <<>>
    /\ db_users = <<>>
    /\ db_cart = <<>>
    /\ itemStore \in {<<>>, [i \in ItemIds |->
                                Item(i, IF i = "i1" THEN "Widget" ELSE "Gadget", 0, 0)]}
    /\ pc = [p \in Procs |-> "idle"]
    /\ op = [p \in Procs |-> ""]
    /\ arg = [p \in Procs |-> <<>>]
    /\ usr = [p \in Procs |-> NoRef]
    /\ calls = [p \in Procs |-> <<>>]
    /\ answers = [p \in Procs |-> <<>>]
    /\ before = [p \in Procs |-> <<>>]
    /\ result = [p \in Procs |-> NoResult]
    /\ wire = NoWire

NextRepo == ItemRepoOps \/ UserRepoOps

SpecRepo == InitRepo /\ [][NextRepo]_vars

(* ================================ claims =============================== *)

\* the task p is executing, or has executed, AddItemToCart
IsAdd(p) == op[p] = "AddItemToCart"

\* the AddItemToCart of task p has returned or raised
AddDone(p) == IsAdd(p) /\ pc[p] = "done"

\* the user named by the request of p was stored when the request began
UserStoredBefore(p) == arg[p].user_id \in DOMAIN before[p]

\* the persisted cart of that user when the request of p began
CartBefore(p) == before[p][arg[p].user_id].cart_items

\* the persisted cart of that user now
CartNow(p) == PersistedUser(arg[p].user_id).cart_items

\* the item service answered "the item exists" and "enough stock" to p
ItemAvailable(p) == answers[p] = <<TRUE, TRUE>>

CallOrder == <<"find_by_id", "get_item", "check_stock", "save">>

IsPrefix(s, t) == Len(s) <= Len(t) /\ \A k \in 1 .. Len(s) : s[k] = t[k]

\* C1: an AddItemToCart that fails with a ValueError (user absent, item
\* absent, stock insufficient, item already in the cart) has not invoked
\* save, and the persisted users and carts are those of before the call.
C1_ZeroWritesOnFailure ==
    \A p \in Procs :
        (IsAdd(p) /\ result[p].kind = "ValueError")
            => ("save" \notin Range(calls[p]) /\ Persisted = before[p])

\* C1 witness: with the in-memory repository, whose find_by_id hands out the
\* stored object, an add has failed on the duplicate check
C1_Witness ==
    \E p \in Procs :
        /\ IsAdd(p) /\ repoType = "in_memory"
        /\ result[p] = ValueError("Item already in cart")

\* C2: the collaborators are invoked in the order find_by_id, get_item,
\* check_stock, save, each at most once; an absent user ends the call after
\* find_by_id, an absent item after get_item, insufficient stock after
\* check_stock (save never invoked); check_stock is issued only once get_item
\* has returned.
C2_CallOrder ==
    \A p \in Procs :
        IsAdd(p) =>
            /\ IsPrefix(calls[p], CallOrder)
            /\ "check_stock" \in Range(calls[p]) => Len(answers[p]) >= 1
            /\ (AddDone(p) /\ ~UserStoredBefore(p)) => calls[p] = <<"find_by_id">>
            /\ (AddDone(p) /\ Len(answers[p]) >= 1 /\ ~answers[p][1])
                  => calls[p] = <<"find_by_id", "get_item">>
            /\ (AddDone(p) /\ Len(answers[p]) = 2 /\ ~answers[p][2])
                  => calls[p] = <<"find_by_id", "get_item", "check_stock">>

\* C2 witness: get_item has reported the item absent and the call has ended
C2_Witness ==
    \E p \in Procs : AddDone(p) /\ answers[p] = <<FALSE>>

\* C3: the reason of a failed AddItemToCart is that of the first failing
\* check in the order user, item, stock, duplicate: the later conditions may
\* hold as well and are not reported.
C3_FirstFailureWins ==
    \A p \in Procs :
        AddDone(p) =>
            /\ ~UserStoredBefore(p)
                  => result[p] = ValueError("User does not exists")
            /\ (UserStoredBefore(p) /\ ~answers[p][1])
                  => result[p] = ValueError("Item does not exists")
            /\ (UserStoredBefore(p) /\ Len(answers[p]) = 2 /\ ~answers[p][2])
                  => result[p] = ValueError("Not enough items in stock")
            /\ (UserStoredBefore(p) /\ ItemAvailable(p)
                  /\ AlreadyInCart(CartBefore(p), arg[p].item_id))
                  => result[p] = ValueError("Item already in cart")

\* C3 witness: the item was already in the cart and out of stock; the call
\* has ended
C3_Witness ==
    \E p \in Procs :
        /\ AddDone(p) /\ UserStoredBefore(p)
        /\ answers[p] = <<TRUE, FALSE>>
        /\ AlreadyInCart(CartBefore(p), arg[p].item_id)

\* C4: when an AddItemToCart that overlaps no other request succeeds, the
\* persisted cart of the user is the cart of before the call followed by
\* exactly one new line (user, item, quantity), and the response lists
\* exactly the lines of the persisted cart; from an empty cart the result is
\* a cart of one line.
C4_SuccessAppendsOneLine ==
    \A p \in Procs :
        (IsAdd(p) /\ result[p].kind = "ok") =>
            LET a == arg[p]
                line == CartItem(a.user_id, a.item_id, a.quantity)
            IN  /\ CartNow(p) = Append(CartBefore(p), line)
                /\ result[p].body = AddToCartResponse(CartNow(p))
                /\ CartBefore(p) = <<>> => CartNow(p) = <<line>>

\* C4 witness: an add to a cart of one line has succeeded against the
\* relational repository
C4_Witness ==
    \E p \in Procs :
        /\ IsAdd(p) /\ result[p].kind = "ok" /\ repoType = "sqlalchemy"
        /\ Len(CartBefore(p)) = 1

NoDuplicateLines(cart_items) ==
    \A j, k \in DOMAIN cart_items :
        cart_items[j].item_id = cart_items[k].item_id => j = k

Racing(p, q) ==
    /\ p # q /\ repoType = "sqlalchemy"
    /\ IsAdd(p) /\ IsAdd(q)
    /\ arg[p].user_id = arg[q].user_id /\ arg[p].item_id = arg[q].item_id
    /\ UserStoredBefore(p) /\ UserStoredBefore(q)
    /\ CartBefore(p) = <<>> /\ CartBefore(q) = <<>>

BothSucceeded(p, q) == result[p].kind = "ok" /\ result[q].kind = "ok"

\* C6 as stated: of two racing executions, each passes the 'not already in
\* cart' check before either has called save.
C6_BothCheckBeforeEitherSaves ==
    \A p, q \in Procs :
        (Racing(p, q) /\ pc[p] = "save") => "save" \notin Range(calls[q])

\* C6, amended: of two racing executions no two are past the duplicate check
\* and before save at once (no suspension point separates the check from
\* save); the one that saves second has passed the check on the cart it
\* loaded before the first saved, and it succeeds as the first did.
C6_StaleCheckBothSucceed ==
    \A p, q \in Procs :
        Racing(p, q) =>
            /\ ~(pc[p] = "save" /\ pc[q] = "save")
            /\ (AddDone(p) /\ result[q].kind = "ok" /\ ItemAvailable(p)
                  /\ arg[p].quantity > 0)
               => result[p].kind = "ok"

\* C6 witness: two racing executions have both returned success
C6_Witness ==
    \E p, q \in Procs : Racing(p, q) /\ BothSucceeded(p, q)

LinesFor(cart_items, item_id) ==
    Cardinality({k \in DOMAIN cart_items : cart_items[k].item_id = item_id})

\* C7 as stated: after two racing executions that both succeeded, the
\* persisted cart does not hold exactly one line for the item.
C7_NotExactlyOneLine ==
    \A p, q \in Procs :
        (Racing(p, q) /\ BothSucceeded(p, q))
            => LinesFor(CartNow(p), arg[p].item_id) # 1

\* C7, amended: after two racing executions that both succeeded, whatever the
\* interleaving at the suspension points, the persisted cart holds exactly
\* one line for the item: the line of the execution that saved last, which
\* replaced the line of the other.
C7_ExactlyOneLine ==
    \A p, q \in Procs :
        (Racing(p, q) /\ BothSucceeded(p, q)) =>
            /\ LinesFor(CartNow(p), arg[p].item_id) = 1
            /\ Len(CartNow(p)) = 1
            /\ CartNow(p)[1].quantity \in {arg[p].quantity, arg[q].quantity}

\* C7 witness: both racing executions have succeeded and the persisted cart
\* is the single line of one of them
C7_Witness ==
    \E p, q \in Procs :
        /\ Racing(p, q) /\ BothSucceeded(p, q)
        /\ CartNow(p) = <<CartItem(arg[p].user_id, arg[p].item_id, arg[p].quantity)>>

IsCreateItem(p) == op[p] = "CreateItem"

NameConflict == ValueError("An item with this name already exists")

NamesUnique ==
    \A i, j \in DOMAIN itemStore : itemStore[i].name = itemStore[j].name => i = j

\* C8: at most one stored item has any given name, and a CreateItem whose
\* name is that of a stored item fails with 'An item with this name already
\* exists', does not invoke save, and leaves the repository unchanged.
C8_NameUniqueness ==
    /\ []NamesUnique
    /\ [][\A p \in Procs :
            (op'[p] = "CreateItem" /\ pc'[p] = "done"
               /\ ItemFindByName(itemStore, arg'[p].name))
            => /\ result'[p] = NameConflict
               /\ "save" \notin Range(calls'[p])
               /\ itemStore' = itemStore]_vars

\* C8 witness: a CreateItem has been rejected for its name while an item of
\* that name is stored
C8_Witness ==
    \E p \in Procs :
        /\ IsCreateItem(p) /\ result[p] = NameConflict
        /\ \E i \in DOMAIN itemStore : itemStore[i].name = arg[p].name

InvalidItemRequest(p) ==
    IsCreateItem(p) /\ pc[p] = "done" /\ (arg[p].price < 0 \/ arg[p].quantity < 0)

\* C9 as stated: a CreateItem with a negative price or quantity fails on the
\* validation before any repository call (neither find_by_name nor save),
\* whether or not the name exists.
C9_ValidationBeforeRepository ==
    \A p \in Procs :
        InvalidItemRequest(p) =>
            /\ calls[p] = <<>>
            /\ result[p] = ValueError(ItemInvalid(arg[p].price, arg[p].quantity))

\* C9, amended: a CreateItem with a negative price or quantity invokes
\* find_by_name and never save, and stores nothing; it fails with the
\* validation error when the name is not stored, and with the name conflict
\* when it is.
C9_ValidationAfterLookup ==
    \A p \in Procs :
        InvalidItemRequest(p) =>
            /\ calls[p] = <<"find_by_name">>
            /\ result[p] = IF ItemFindByName(itemStore, arg[p].name)
                           THEN NameConflict
                           ELSE ValueError(ItemInvalid(arg[p].price, arg[p].quantity))
            /\ \A i \in DOMAIN itemStore :
                  itemStore[i].price >= 0 /\ itemStore[i].quantity >= 0

\* C9 witness: a CreateItem with a negative quantity and the name of a stored
\* item has been rejected
C9_Witness ==
    \E p \in Procs :
        /\ InvalidItemRequest(p) /\ arg[p].price >= 0 /\ arg[p].quantity < 0
        /\ ItemFindByName(itemStore, arg[p].name)

NonPositiveAdd(p) == AddDone(p) /\ arg[p].quantity <= 0

\* C10 as stated: an AddItemToCart with a quantity that is not positive is
\* rejected with 'Quantity must be positive' before any repository
\* interaction (find_by_id and save not invoked), whether or not the user
\* exists.
C10_QuantityCheckedFirst ==
    \A p \in Procs :
        NonPositiveAdd(p) =>
            /\ "find_by_id" \notin Range(calls[p])
            /\ "save" \notin Range(calls[p])
            /\ result[p] = ValueError("Quantity must be positive")

\* C10, amended: an AddItemToCart with a quantity that is not positive fails
\* without invoking save and stores nothing, but after find_by_id; it fails
\* with 'Quantity must be positive' exactly when the user exists, the item is
\* present and in stock and is not yet in the cart, and with the reason of
\* the earlier failing check otherwise.
C10_QuantityCheckedLast ==
    \A p \in Procs :
        NonPositiveAdd(p) =>
            /\ result[p].kind = "ValueError"
            /\ calls[p][1] = "find_by_id"
            /\ "save" \notin Range(calls[p])
            /\ Persisted = before[p]
            /\ result[p].reason = "Quantity must be positive"
                  <=> /\ UserStoredBefore(p)
                      /\ ItemAvailable(p)
                      /\ ~AlreadyInCart(CartBefore(p), arg[p].item_id)

\* C10 witness: an add of a non-positive quantity has been rejected by the
\* CartItem validation, after find_by_id, get_item and check_stock
C10_Witness ==
    \E p \in Procs :
        /\ NonPositiveAdd(p)
        /\ result[p] = ValueError("Quantity must be positive")
        /\ calls[p] = <<"find_by_id", "get_item", "check_stock">>

\* C11: every stored item has price >= 0 and quantity >= 0 (zero is accepted
\* for both) and every persisted cart line has quantity > 0: a CreateItem with
\* a negative price or quantity and an AddItemToCart with quantity <= 0 never
\* reach save.
C11_StoredValuesValid ==
    /\ \A i \in DOMAIN itemStore :
          itemStore[i].price >= 0 /\ itemStore[i].quantity >= 0
    /\ \A u \in UserIdsStored :
          \A k \in DOMAIN PersistedUser(u).cart_items :
              PersistedUser(u).cart_items[k].quantity > 0
    /\ \A p \in Procs :
          (InvalidItemRequest(p) \/ NonPositiveAdd(p))
             => "save" \notin Range(calls[p])

\* C11 witness: an item of price 0 and quantity 0 is stored, a cart line is
\* persisted, and an add of a non-positive quantity has just been refused
C11_Witness ==
    /\ \E i \in DOMAIN itemStore :
          itemStore[i].price = 0 /\ itemStore[i].quantity = 0
    /\ \E u \in UserIdsStored : PersistedUser(u).cart_items # <<>>
    /\ \E p \in Procs : NonPositiveAdd(p)

IsCreateUser(p) == op[p] = "CreateUser"

EmailConflict == ValueError("An user with this email already exists")

EmailStored(email) == \E u \in UserIdsStored : PersistedUser(u).email = email

EmailsUnique ==
    \A u, v \in UserIdsStored :
        PersistedUser(u).email = PersistedUser(v).email => u = v

\* C12: at most one stored user has any given email; a CreateUser whose
\* email is already stored fails with 'An user with this email already
\* exists' without calling save and leaves the store as it was; a successful
\* CreateUser stores a user whose cart is empty.
C12_EmailUniqueness ==
    /\ []EmailsUnique
    /\ [][\A p \in Procs :
            (op'[p] = "CreateUser" /\ pc'[p] = "done") =>
               /\ EmailStored(arg'[p].email)
                     => /\ result'[p] = EmailConflict
                        /\ "save" \notin Range(calls'[p])
                        /\ Persisted' = Persisted
               /\ result'[p].kind = "ok"
                     => /\ ~EmailStored(arg'[p].email)
                        /\ \A id \in UserIds :
                              id = result'[p].body.id
                                 => /\ id \notin UserIdsStored
                                    /\ PersistedUser(id)'
                                          = User(id, arg'[p].email,
                                                 Sha512(arg'[p].password), <<>>)
                        /\ \A u \in UserIdsStored :
                              PersistedUser(u)' = PersistedUser(u)]_vars

\* C12 witness: two users are stored and a CreateUser has been refused for
\* its email
C12_Witness ==
    \E p \in Procs :
        /\ IsCreateUser(p) /\ result[p] = EmailConflict
        /\ EmailStored(arg[p].email)
        /\ Cardinality(UserIdsStored) = 2

CreatedUser(p) == IsCreateUser(p) /\ result[p].kind = "ok"

\* the hash stored for the user that the CreateUser of p created
StoredHash(p) == PersistedUser(result[p].body.id).hashed_password

\* C13: the password hash CreateUser stores is a function of the raw password
\* alone (users created with the same raw password have equal stored hashes,
\* whatever their emails and ids), the stored hash is never the raw password,
\* and neither the raw password nor the hash appears in the response.
C13_PasswordHash ==
    \A p \in Procs :
        CreatedUser(p) =>
            /\ StoredHash(p) # arg[p].password
            /\ StoredHash(p) = Sha512(arg[p].password)
            /\ DOMAIN result[p].body \cap {"password", "hashed_password"} = {}
            /\ \A f \in DOMAIN result[p].body :
                  result[p].body[f] \notin {arg[p].password, StoredHash(p)}
            /\ \A q \in Procs :
                  (CreatedUser(q) /\ arg[q].password = arg[p].password)
                     => StoredHash(q) = StoredHash(p)

\* C13 witness: two users with different emails have been created with the
\* same raw password
C13_Witness ==
    \E p, q \in Procs :
        /\ CreatedUser(p) /\ CreatedUser(q)
        /\ arg[p].password = arg[q].password
        /\ arg[p].email # arg[q].email
        /\ result[p].body.id # result[q].body.id

IsListItemsInCart(p) == op[p] = "ListItemsInCart"

\* the response shape of a cart: item id and quantity of each line
CartLines(cart_items) ==
    [k \in DOMAIN cart_items |->
        [item_id |-> cart_items[k].item_id, quantity |-> cart_items[k].quantity]]

\* C14: ListItemsInCart never fails: for a user id that is not stored and for
\* a stored user without cart lines it returns the empty list; for a stored
\* user it returns exactly the lines of the user's persisted cart (item id
\* and quantity of each).
C14_ListItemsInCart ==
    \A p \in Procs :
        (IsListItemsInCart(p) /\ pc[p] = "done") =>
            /\ result[p].kind = "ok"
            /\ "save" \notin Range(calls[p])
            /\ arg[p].user_id \notin UserIdsStored => result[p].body = <<>>
            /\ arg[p].user_id \in UserIdsStored
                  => result[p].body = CartLines(CartNow(p))

\* C14 witness: the cart of a stored user, of one line, has been listed from
\* the relational repository while another user has a cart too
C14_Witness ==
    \E p \in Procs :
        /\ IsListItemsInCart(p) /\ pc[p] = "done" /\ repoType = "sqlalchemy"
        /\ arg[p].user_id \in UserIdsStored
        /\ Len(result[p].body) = 1
        /\ Len(db_cart) = 2

\* C15: GetAllItems returns exactly one entry, with unchanged fields, for
\* every stored item and nothing else; the empty store gives the empty list,
\* not an error; every successful CreateItem adds one entry, so that after n
\* of them the list has n entries.
C15_GetAllItems ==
    [][\A p \in Procs :
          /\ (op'[p] = "GetAllItems" /\ pc'[p] = "done") =>
                /\ result'[p].kind = "ok"
                /\ result'[p].body = SetToBag({itemStore[i] : i \in DOMAIN itemStore})
                /\ BagCardinality(result'[p].body) = Cardinality(DOMAIN itemStore)
                /\ DOMAIN itemStore = {} => result'[p].body = EmptyBag
                /\ itemStore' = itemStore
          /\ (op'[p] = "CreateItem" /\ result'[p].kind = "ok") =>
                BagCardinality(ItemGetAll(itemStore'))
                   = BagCardinality(ItemGetAll(itemStore)) + 1]_vars

\* C15 witness: two items are stored, one of them of quantity 0, and
\* GetAllItems has returned two entries
C15_Witness ==
    \E p \in Procs :
        /\ op[p] = "GetAllItems" /\ pc[p] = "done"
        /\ BagCardinality(result[p].body) = 2
        /\ \E i \in DOMAIN itemStore : itemStore[i].quantity = 0

\* the stored records of run p other than the one of identity id
OtherItems(p, id) == {StoredItems(p)[i] : i \in DOMAIN StoredItems(p) \ {id}}

OtherUsers(p, id) == {StoredUsers(p)[u] : u \in DOMAIN StoredUsers(p) \ {id}}

\* the save of x that run p has just made gives no two stored items a name
NameFree(p, x) == \A other \in OtherItems(p, x.id) : other.name # x.name

\* the save of x that run p has just made gives no two stored users an email
EmailFree(p, x) == \A other \in OtherUsers(p, x.id) : other.email # x.email

\* C16: round trip, for the in-memory and the relational repository and for
\* Item and User: save(x) followed by find_by_id(x.id) returns a value equal
\* to x in every field, the lines of cart_items and their quantities
\* included (x taking the name or email of no other stored record).
C16_RoundTrip ==
    [][\A p \in Procs :
          /\ (/\ op[p] = "item.save" /\ op'[p] = "item.find_by_id"
              /\ arg'[p].id = arg[p].item.id /\ NameFree(p, arg[p].item))
                => result'[p] = Ok(arg[p].item)
          /\ (/\ op[p] = "user.save" /\ op'[p] = "user.find_by_id"
              /\ arg'[p].user_id = arg[p].user.id /\ EmailFree(p, arg[p].user))
                => result'[p] = Ok(arg[p].user)]_vars

\* C17: ItemRepository.save is an idempotent upsert by id in both
\* implementations: after the save of an item whose id was stored (and whose
\* name no other item has) the record stored under that id has the new
\* name, price and quantity, and the other records are those of before.
C17_IdempotentUpsert ==
    \A p \in Procs :
        (/\ op[p] = "item.save" /\ arg[p].item.id \in DOMAIN before[p]
         /\ NameFree(p, arg[p].item))
            => /\ arg[p].item.id \in DOMAIN StoredItems(p)
               /\ StoredItems(p)[arg[p].item.id] = arg[p].item
               /\ OtherItems(p, arg[p].item.id)
                     = {before[p][i] : i \in DOMAIN before[p] \ {arg[p].item.id}}

\* C18: UserRepository.save is a full replace of the aggregate: after
\* save(u) (u taking the email of no other stored user), find_cart_items(u.id)
\* returns exactly the lines of u.cart_items and the stored scalar fields are
\* those of u, whatever was stored for that id before; the users stored under
\* other ids keep their fields and lines.
C18_FullReplace ==
    \A p \in Procs :
        (op[p] = "user.save" /\ EmailFree(p, arg[p].user)) =>
            LET u == arg[p].user
            IN  /\ result[p] = Ok(u)
                /\ u.id \in DOMAIN StoredUsers(p)
                /\ (IF p = MemRun
                    THEN MemUserFindCartItems(heap, mem_users, u.id)
                    ELSE SqlUserFindCartItems(db_cart, u.id)) = u.cart_items
                /\ StoredUsers(p)[u.id].email = u.email
                /\ StoredUsers(p)[u.id].hashed_password = u.hashed_password
                /\ \A v \in DOMAIN before[p] \ {u.id} :
                      v \in DOMAIN StoredUsers(p) /\ StoredUsers(p)[v] = before[p][v]

\* C18 witness: the relational repository has saved a user over a stored one
\* of another email whose cart held a line that the saved cart does not have
C18_Witness ==
    LET u == arg[SqlRun].user
    IN  /\ op[SqlRun] = "user.save" /\ result[SqlRun].kind = "ok"
        /\ u.id \in DOMAIN before[SqlRun]
        /\ before[SqlRun][u.id].email # u.email
        /\ \E line \in Range(before[SqlRun][u.id].cart_items) :
              line \notin Range(u.cart_items)

\* the caller of the in-memory repository holds the object it saved
HoldsSaved == calls[MemRun] # <<>> /\ calls[MemRun][1] \in {"item.save", "user.save"}

\* C19: the in-memory repositories store a copy: a mutation of the object
\* that the caller saved (a field of an Item changed, a line appended to a
\* User's cart_items) leaves what find_by_id and find_cart_items return for
\* every stored id unchanged.
C19_SaveStoresCopy ==
    [][(HoldsSaved /\ op'[MemRun] \in {"item.mutate", "user.mutate"}) =>
          /\ StoredItems(MemRun)' = StoredItems(MemRun)
          /\ StoredUsers(MemRun)' = StoredUsers(MemRun)
          /\ \A u \in UserIds :
                MemUserFindCartItems(heap, mem_users, u)'
                   = MemUserFindCartItems(heap, mem_users, u)]_vars

\* C19 witness: the caller has appended a line to the cart of the user it
\* saved, and the stored cart of that user has no line
C19_Witness ==
    /\ HoldsSaved /\ op[MemRun] = "user.mutate"
    /\ Len(heap[usr[MemRun]].cart_items) = 1
    /\ heap[usr[MemRun]].id \in DOMAIN mem_users
    /\ MemUserFindCartItems(heap, mem_users, heap[usr[MemRun]].id) = <<>>

\* C20: the in-memory and the relational repositories are observationally
\* equivalent: whatever the operations issued so far, the operation just
\* issued to both returns the same result from both, a save that reuses a
\* stored id and a save that repeats a stored email or item name included.
C20_ObservationalEquivalence == result[MemRun] = result[SqlRun]

\* C23: items are immutable after creation: in every step of the five use
\* cases a stored item stays stored with the same id, name, price and
\* quantity; AddItemToCart does not decrement the stock.
C23_ItemsImmutable ==
    [][\A i \in DOMAIN itemStore :
          i \in DOMAIN itemStore' /\ itemStore'[i] = itemStore[i]]_vars

\* C23 witness: two items are stored, and an AddItemToCart of one of them,
\* stored with quantity MaxStock, has succeeded
C23_Witness ==
    \E p \in Procs :
        /\ IsAdd(p) /\ result[p].kind = "ok"
        /\ DOMAIN itemStore = ItemIds
        /\ itemStore[arg[p].item_id].quantity = MaxStock

\* the step is an execution of ListItemsInCart or GetAllItems by task p
IsRead(p) == op'[p] \in {"ListItemsInCart", "GetAllItems"} /\ pc'[p] = "done"

\* C25: ListItemsInCart and GetAllItems are pure reads: whatever the argument
\* and the state, the stored users, carts and items are those of before, and
\* the call that repeats the previous one returns the same result.
C25_PureReads ==
    [][\A p \in Procs :
          IsRead(p) =>
             /\ storeVars' = storeVars
             /\ Persisted' = Persisted
             /\ (pc[p] = "done" /\ op[p] = op'[p] /\ arg[p] = arg'[p])
                   => result'[p] = result[p]]_vars

\* C25 witness: ListItemsInCart has returned a cart of one line from the
\* relational repository while items are stored
C25_Witness ==
    \E p \in Procs :
        /\ IsListItemsInCart(p) /\ pc[p] = "done" /\ repoType = "sqlalchemy"
        /\ Len(result[p].body) = 1
        /\ DOMAIN itemStore # {}

\* C29: a successful AddItemToCart changes only the cart of the user it
\* names: the stored users are the same, every other user's aggregate and
\* the email and hash of the user are those of before the call, and no step
\* of AddItemToCart changes the item store.
C29_OnlyTargetCartChanges ==
    /\ [](\A p \in Procs :
            (IsAdd(p) /\ result[p].kind = "ok") =>
               /\ DOMAIN Persisted = DOMAIN before[p]
               /\ \A u \in DOMAIN before[p] :
                     IF u = arg[p].user_id
                     THEN /\ Persisted[u].email = before[p][u].email
                          /\ Persisted[u].hashed_password = before[p][u].hashed_password
                          /\ Persisted[u].id = before[p][u].id
                     ELSE Persisted[u] = before[p][u])
    /\ [][\A p \in Procs :
            op'[p] = "AddItemToCart" => itemStore' = itemStore]_vars

\* C29 witness: an add for one user has succeeded against the relational
\* repository while another user with a line in its cart is stored
C29_Witness ==
    \E p \in Procs :
        /\ IsAdd(p) /\ result[p].kind = "ok" /\ repoType = "sqlalchemy"
        /\ \E u \in DOMAIN before[p] \ {arg[p].user_id} :
              before[p][u].cart_items # <<>>

\* find_cart_items(u) of the repository that is wired
FindCartItems(u) ==
    IF repoType = "in_memory" THEN MemUserFindCartItems(heap, mem_users, u)
    ELSE SqlUserFindCartItems(db_cart, u)

\* C30: in every state reachable through the use cases, every line of a
\* stored user's cart carries that user's id, find_cart_items(u.id) and
\* find_by_id(u.id).cart_items are the same lines, every cart_items row
\* belongs to a stored user, and the lines a successful AddItemToCart
\* returns are those find_cart_items finds.
C30_LinesCarryUserId ==
    /\ \A u \in UserIdsStored :
          /\ \A k \in DOMAIN PersistedUser(u).cart_items :
                PersistedUser(u).cart_items[k].user_id = u
          /\ FindCartItems(u) = PersistedUser(u).cart_items
    /\ \A k \in DOMAIN db_cart : db_cart[k].user_id \in DOMAIN db_users
    /\ \A p \in Procs :
          (IsAdd(p) /\ result[p].kind = "ok")
             => result[p].body = AddToCartResponse(FindCartItems(arg[p].user_id))

\* C30 witness: two users are stored in memory, each with a line of the
\* same item
C30_Witness ==
    /\ repoType = "in_memory" /\ UserIdsStored = UserIds
    /\ \E i \in ItemIds : \A u \in UserIds :
          \E k \in DOMAIN PersistedUser(u).cart_items :
              PersistedUser(u).cart_items[k].item_id = i

\* the line that the AddItemToCart of task p asks for
LineOf(p) == CartItem(arg[p].user_id, arg[p].item_id, arg[p].quantity)

\* two executions of AddItemToCart against the relational repository for
\* the same user and different items, both begun while the persisted cart of
\* the user was empty: each loaded the user before the other saved
RacingApart(p, q) ==
    /\ p # q /\ repoType = "sqlalchemy"
    /\ IsAdd(p) /\ IsAdd(q)
    /\ arg[p].user_id = arg[q].user_id /\ arg[p].item_id # arg[q].item_id
    /\ UserStoredBefore(p) /\ UserStoredBefore(q)
    /\ CartBefore(p) = <<>> /\ CartBefore(q) = <<>>

\* C24: lost update with the relational repository: when two AddItemToCart
\* executions for the same user and different items have both loaded the
\* user before either saved, the save of the second one, made after the
\* first has returned success, succeeds too and leaves its own line alone in
\* the persisted cart; after both succeeded the cart holds one line.
C24_LostUpdate ==
    /\ [](\A p, q \in Procs :
            (RacingApart(p, q) /\ BothSucceeded(p, q)) =>
               /\ Len(CartNow(p)) = 1
               /\ CartNow(p)[1] \in {LineOf(p), LineOf(q)})
    /\ [][\A p, q \in Procs :
            (/\ RacingApart(p, q) /\ result[q].kind = "ok"
             /\ pc[p] = "save" /\ pc'[p] = "done")
               => /\ result'[p].kind = "ok"
                  /\ CartNow(p)' = <<LineOf(p)>>]_vars

\* C24 witness: both executions have returned success, each with its own
\* line, and the persisted cart holds the line of one of them only
C24_Witness ==
    \E p, q \in Procs :
        /\ RacingApart(p, q) /\ BothSucceeded(p, q)
        /\ result[p].body = AddToCartResponse(<<LineOf(p)>>)
        /\ result[q].body = AddToCartResponse(<<LineOf(q)>>)
        /\ CartNow(p) = <<LineOf(q)>>

\* C27: against InMemoryUserRepository the stored state changes only
\* through save: while an AddItemToCart for a stored user has not invoked
\* save, the stored cart of that user is the one of before the call.
C27_StoreChangesOnlyThroughSave ==
    \A p \in Procs :
        (/\ repoType = "in_memory" /\ IsAdd(p) /\ UserStoredBefore(p)
         /\ "save" \notin Range(calls[p]))
            => CartNow(p) = CartBefore(p)

\* two executions of AddItemToCart on one InMemoryUserRepository for the
\* same stored user
SharedRepository(p, q) ==
    /\ p # q /\ repoType = "in_memory"
    /\ IsAdd(p) /\ IsAdd(q)
    /\ arg[p].user_id = arg[q].user_id
    /\ UserStoredBefore(p) /\ UserStoredBefore(q)

BothLinesStored(p, q) ==
    /\ LinesFor(CartNow(p), arg[p].item_id) = 1
    /\ LinesFor(CartNow(p), arg[q].item_id) = 1

\* C28 as stated: on one InMemoryUserRepository, two executions for the same
\* user and item never both succeed, and two for the same user and different
\* items that both succeed leave both lines in the stored cart.
C28_NoCartRace ==
    \A p, q \in Procs :
        SharedRepository(p, q) =>
            IF arg[p].item_id = arg[q].item_id
            THEN ~BothSucceeded(p, q)
            ELSE BothSucceeded(p, q) => BothLinesStored(p, q)

\* two executions on one InMemoryUserRepository that hold the same User
\* object: both called find_by_id while the cart of the user was empty, that
\* is before the first save of that user replaced the object that was stored
\* at its creation
HoldSameObject(p, q) ==
    /\ SharedRepository(p, q)
    /\ CartBefore(p) = <<>> /\ CartBefore(q) = <<>>

\* C28, amended: two executions that hold the same User object never both
\* succeed for the same item, and when they both succeed for different items
\* both lines are in the stored cart.  An execution that holds an object
\* which a save has since replaced is not covered: it can succeed for an
\* item that is already stored.
C28_NoCartRaceOnSameObject ==
    \A p, q \in Procs :
        HoldSameObject(p, q) =>
            /\ (usr[p] # NoRef /\ usr[q] # NoRef) => usr[p] = usr[q]
            /\ IF arg[p].item_id = arg[q].item_id
               THEN ~BothSucceeded(p, q)
               ELSE BothSucceeded(p, q) => BothLinesStored(p, q)

\* C28 witness: two executions that hold the same object, for different
\* items, have both succeeded
C28_Witness ==
    \E p, q \in Procs :
        /\ HoldSameObject(p, q)
        /\ arg[p].item_id # arg[q].item_id
        /\ BothSucceeded(p, q)

\* the use case that the handler was given is running or has yet to run
InUse(p) == wire.stage = "provided" /\ pc[p] # "done"

\* C21: the session that a provider opened for a use-case invocation is
\* open as long as the use case has not completed, and is closed once the
\* handler has answered, whether the use case returned or raised.
C21_SessionScoped ==
    wire.session # "none" =>
        /\ InUse(MainTask) => wire.session = "open"
        /\ wire.stage = "responded" => wire.session = "closed"

\* the request that has just been executed repeats the one answered before
\* it, which created an item
RepeatsCreateItem(p) ==
    /\ wire.last.op = "CreateItem" /\ wire.last.result.kind = "ok"
    /\ op[p] = "CreateItem" /\ arg[p] = wire.last.arg

\* the request that has just been executed adds to the cart of the user
\* that the request answered before it created
AddsToCartOfCreated(p) ==
    /\ wire.last.op = "CreateUser" /\ wire.last.result.kind = "ok"
    /\ op[p] = "AddItemToCart" /\ arg[p].user_id = wire.last.result.body.id

\* C22: what a request wrote, the next request sees, under either
\* REPOSITORY_TYPE: the POST /items that repeats a successful one is
\* answered 'An item with this name already exists', and the POST
\* /users/{id}/cart for the user that POST /users has just created finds
\* that user.
C22_WritesVisibleLater ==
    (wire.stage = "provided" /\ pc[MainTask] = "done") =>
        /\ RepeatsCreateItem(MainTask) => result[MainTask] = NameConflict
        /\ AddsToCartOfCreated(MainTask) =>
              result[MainTask] # ValueError("User does not exists")

\* C26: every GET /items handler is given a GetAllItemsUseCase, and its
\* call of execute() returns the list of all items.
C26_GetItemsWired ==
    (/\ wire.handler \in {"get_items", "item_router.get_items"}
     /\ wire.stage = "responded")
        => /\ wire.use_case = "GetAllItems"
           /\ result[MainTask] = Ok(ItemGetAll(itemStore))

=============================================================================
